---- MODULE Spec2Model ----
(***************************************************************************)
(* Student record store of the seminary management system                  *)
(* (src/student.py): the Student model with its validators, the            *)
(* StudentManager collection, its JSON document and its signals; the       *)
(* session file (src/session_manager.py) and the login window              *)
(* (src/mainwindow.py).                                                    *)
(*                                                                         *)
(* Spec is the store with failing reads and writes, RecordSpec one Student *)
(* object, SearchSpec and QuerySpec the query operations, SessionSpec the  *)
(* session file over time, LoginSpec the login window and its timers.      *)
(*                                                                         *)
(* Strings are sequences of characters.  A character is a one-character    *)
(* string; a character outside ASCII is written "uXXXX" (its code point).  *)
(***************************************************************************)
EXTENDS Integers, Sequences, FiniteSets, TLC

(***************************************************************************)
(* Bounds of the model.                                                    *)
(***************************************************************************)
\* add_student appends while the collection holds fewer than this many
\* students that are not sample students.
MaxNewStudents == 1
\* Number of failing reads and writes of the document in one run.
MaxFaults == 1
\* The hours the clock of the session runs.
MaxNow == 50
\* Number of accept_login timers one login window starts.
MaxTimers == 2

(***************************************************************************)
(* Program constants.                                                      *)
(***************************************************************************)
IdMinLength == 1
IdMaxLength == 10
TextMinLength == 1
TextMaxLength == 100
IdRequiredLength == 3
IdPadWidth == 3

(***************************************************************************)
(* Characters and Python string operations.                                *)
(***************************************************************************)
DigitChars == <<"0", "1", "2", "3", "4", "5", "6", "7", "8", "9">>
LowerChars == <<"a", "b", "c", "d", "e", "f", "g", "h", "i", "j", "k", "l", "m",
                "n", "o", "p", "q", "r", "s", "t", "u", "v", "w", "x", "y", "z">>
UpperChars == <<"A", "B", "C", "D", "E", "F", "G", "H", "I", "J", "K", "L", "M",
                "N", "O", "P", "Q", "R", "S", "T", "U", "V", "W", "X", "Y", "Z">>

IsDigit(c) == \E i \in 1..10 : DigitChars[i] = c

DigitVal(c) == (CHOOSE i \in 1..10 : DigitChars[i] = c) - 1

IsSpace(c) == c = " "

\* str.upper() of one character: a sequence, because the sharp s (u00DF)
\* upper-cases to the two characters "SS".
UpperChar(c) ==
  IF \E i \in 1..26 : LowerChars[i] = c
    THEN << UpperChars[CHOOSE i \in 1..26 : LowerChars[i] = c] >>
    ELSE IF c = "u00DF" THEN << "S", "S" >> ELSE << c >>

RECURSIVE upper(_)
upper(v) == IF v = << >> THEN << >> ELSE UpperChar(Head(v)) \o upper(Tail(v))

startswith(v, prefix) ==
  /\ Len(v) >= Len(prefix)
  /\ SubSeq(v, 1, Len(prefix)) = prefix

RECURSIVE lstrip(_)
lstrip(v) == IF v # << >> /\ IsSpace(Head(v)) THEN lstrip(Tail(v)) ELSE v

RECURSIVE rstrip(_)
rstrip(v) ==
  IF v # << >> /\ IsSpace(v[Len(v)]) THEN rstrip(SubSeq(v, 1, Len(v) - 1)) ELSE v

strip(v) == rstrip(lstrip(v))

RECURSIVE DigitsValue(_, _)
DigitsValue(v, acc) ==
  IF v = << >> THEN acc
  ELSE IF Head(v) = "_" THEN DigitsValue(Tail(v), acc)
  ELSE DigitsValue(Tail(v), 10 * acc + DigitVal(Head(v)))

\* The digit part of an integer literal as int() reads it: digits, with
\* single underscores allowed between two digits.
IntBodyOk(b) ==
  /\ b # << >>
  /\ IsDigit(b[1])
  /\ IsDigit(b[Len(b)])
  /\ \A i \in 1..Len(b) : IsDigit(b[i]) \/ b[i] = "_"
  /\ \A i \in 1..(Len(b) - 1) : ~(b[i] = "_" /\ b[i + 1] = "_")

\* int(v) for a str v over the characters of the model: surrounding
\* whitespace is stripped, one sign is allowed; ok = FALSE stands for
\* ValueError.
int(v) ==
  LET s == strip(v)
      signed == s # << >> /\ Head(s) \in {"+", "-"}
      b == IF signed THEN Tail(s) ELSE s
  IN  IF IntBodyOk(b)
        THEN [ok |-> TRUE,
              val |-> IF signed /\ Head(s) = "-"
                         THEN 0 - DigitsValue(b, 0) ELSE DigitsValue(b, 0)]
        ELSE [ok |-> FALSE, val |-> 0]

RECURSIVE Decimal(_)
Decimal(n) ==
  IF n < 10 THEN << DigitChars[n + 1] >>
  ELSE Decimal(n \div 10) \o << DigitChars[(n % 10) + 1] >>

RECURSIVE ZeroPad(_, _)
ZeroPad(v, width) == IF Len(v) >= width THEN v ELSE ZeroPad(<< "0" >> \o v, width)

\* format(n, "03d") for n >= 0.
Format03d(n) == ZeroPad(Decimal(n), IdPadWidth)

Max(a, b) == IF a >= b THEN a ELSE b

(***************************************************************************)
(* datetime.strptime(v, "%d/%m/%Y")                                        *)
(***************************************************************************)
SlashPositions(v) == {i \in 1..Len(v) : v[i] = "/"}

\* %d : 3[0-1] | [1-2]\d | 0[1-9] | [1-9] | " "[1-9]
DayTextOk(d) ==
  \/ Len(d) = 1 /\ IsDigit(d[1]) /\ d[1] # "0"
  \/ /\ Len(d) = 2
     /\ \/ d[1] = "3" /\ d[2] \in {"0", "1"}
        \/ d[1] \in {"1", "2"} /\ IsDigit(d[2])
        \/ d[1] \in {"0", " "} /\ IsDigit(d[2]) /\ d[2] # "0"

\* %m : 1[0-2] | 0[1-9] | [1-9]
MonthTextOk(m) ==
  \/ Len(m) = 1 /\ IsDigit(m[1]) /\ m[1] # "0"
  \/ /\ Len(m) = 2
     /\ \/ m[1] = "1" /\ m[2] \in {"0", "1", "2"}
        \/ m[1] = "0" /\ IsDigit(m[2]) /\ m[2] # "0"

\* %Y : \d\d\d\d
YearTextOk(y) == Len(y) = 4 /\ \A i \in 1..4 : IsDigit(y[i])

IsLeap(y) == (y % 4 = 0 /\ y % 100 # 0) \/ y % 400 = 0

DaysInMonth(m, y) ==
  IF m = 2 THEN (IF IsLeap(y) THEN 29 ELSE 28)
  ELSE IF m \in {4, 6, 9, 11} THEN 30 ELSE 31

\* ok = FALSE stands for ValueError.
strptime(v) ==
  LET ps == SlashPositions(v)
      NoDate == [ok |-> FALSE, day |-> 0, month |-> 0, year |-> 0]
  IN  IF Cardinality(ps) # 2 THEN NoDate
      ELSE
        LET i == CHOOSE p \in ps : \A q \in ps : p <= q
            j == CHOOSE p \in ps : \A q \in ps : p >= q
            d == SubSeq(v, 1, i - 1)
            m == SubSeq(v, i + 1, j - 1)
            y == SubSeq(v, j + 1, Len(v))
        IN  IF DayTextOk(d) /\ MonthTextOk(m) /\ YearTextOk(y)
              THEN
                LET dd == DigitsValue(lstrip(d), 0)
                    mm == DigitsValue(m, 0)
                    yy == DigitsValue(y, 0)
                IN  IF yy >= 1 /\ dd <= DaysInMonth(mm, yy)
                      THEN [ok |-> TRUE, day |-> dd, month |-> mm, year |-> yy]
                      ELSE NoDate
              ELSE NoDate

(***************************************************************************)
(* class Student                                                           *)
(***************************************************************************)
FieldNames == {"id", "name", "birth_date", "hometown", "parish", "diocese"}

\* The keyword arguments of Student(...) / the mapping given to from_dict.
Fields(id, name, birth_date, hometown, parish, diocese) ==
  [id |-> id, name |-> name, birth_date |-> birth_date,
   hometown |-> hometown, parish |-> parish, diocese |-> diocese]

validate_birth_date(v) == strptime(v).ok

\* The check of validate_student_id; its return value is upper(v).
validate_student_id(v) ==
  /\ startswith(v, << "S", "V" >>)
  /\ Len(v) >= IdRequiredLength

LengthOk(v, lo, hi) == Len(v) >= lo /\ Len(v) <= hi

\* Model validation succeeds: extra="forbid", every field required, the
\* Field length constraints, then the field validators.
IsValid(data) ==
  /\ DOMAIN data = FieldNames
  /\ LengthOk(data.id, IdMinLength, IdMaxLength)
  /\ validate_student_id(data.id)
  /\ LengthOk(data.name, TextMinLength, TextMaxLength)
  /\ validate_birth_date(data.birth_date)
  /\ LengthOk(data.hometown, TextMinLength, TextMaxLength)
  /\ LengthOk(data.parish, TextMinLength, TextMaxLength)
  /\ LengthOk(data.diocese, TextMinLength, TextMaxLength)

\* The Student that validation of a valid mapping yields.
from_dict(data) == [data EXCEPT !.id = upper(data.id)]

to_dict(student) == [f \in FieldNames |-> student[f]]

Student(id, name, birth_date, hometown, parish, diocese) ==
  from_dict(Fields(id, name, birth_date, hometown, parish, diocese))

(***************************************************************************)
(* StudentManager.create_sample_data: the literal sample students          *)
(***************************************************************************)
Sample01 ==
  Student(<<"S","V","0","0","1">>,
          <<"N","g","u","y","u1EC5","n"," ","V","u0103","n"," ","A","n">>,
          <<"1","5","/","0","3","/","1","9","9","5">>,
          <<"H","u00E0"," ","N","u1ED9","i">>,
          <<"G","x"," ","T","h","u00E1","n","h"," ","G","i","u","s","e">>,
          <<"G","p"," ","H","u00E0"," ","N","u1ED9","i">>)

Sample02 ==
  Student(<<"S","V","0","0","2">>,
          <<"T","r","u1EA7","n"," ","T","h","u00E0","n","h"," ","B","u00EC","n","h">>,
          <<"2","2","/","0","7","/","1","9","9","6">>,
          <<"T","P",".","H","C","M">>,
          <<"G","x"," ","u0110","u1EE9","c"," ","B","u00E0">>,
          <<"G","p"," ","T","P",".","H","C","M">>)

Sample03 ==
  Student(<<"S","V","0","0","3">>,
          <<"L","u00EA"," ","M","i","n","h"," ","C","u01B0","u1EDD","n","g">>,
          <<"0","8","/","1","1","/","1","9","9","4">>,
          <<"u0110","u00E0"," ","N","u1EB5","n","g">>,
          <<"G","x"," ","C","h","u00ED","n","h"," ","T","u00F2","a">>,
          <<"G","p"," ","u0110","u00E0"," ","N","u1EB5","n","g">>)

Sample04 ==
  Student(<<"S","V","0","0","4">>,
          <<"P","h","u1EA1","m"," ","Q","u","a","n","g"," ","D","u0169","n","g">>,
          <<"0","3","/","1","2","/","1","9","9","7">>,
          <<"H","u1EA3","i"," ","P","h","u00F2","n","g">>,
          <<"G","x"," ","T","h","u00E1","n","h"," ","T","u00E2","m">>,
          <<"G","p"," ","H","u1EA3","i"," ","P","h","u00F2","n","g">>)

Sample05 ==
  Student(<<"S","V","0","0","5">>,
          <<"H","o","u00E0","n","g"," ","V","u0103","n"," ","E","m">>,
          <<"2","8","/","0","5","/","1","9","9","5">>,
          <<"H","u","u1EBF">>,
          <<"G","x"," ","P","h","u00FA"," ","C","a","m">>,
          <<"G","p"," ","H","u","u1EBF">>)

Sample06 ==
  Student(<<"S","V","0","0","6">>,
          <<"V","u0169"," ","T","h","u00E0","n","h"," ","P","h","u00FA","c">>,
          <<"1","4","/","0","9","/","1","9","9","6">>,
          <<"N","a","m"," ","u0110","u1ECB","n","h">>,
          <<"G","x"," ","T","h","u00E1","n","h"," ","P","h","u00EA","r","u00F4">>,
          <<"G","p"," ","B","u00F9","i"," ","C","h","u">>)

Sample07 ==
  Student(<<"S","V","0","0","7">>,
          <<"u0110","u1EB7","n","g"," ","M","i","n","h"," ","Q","u","a","n","g">>,
          <<"0","7","/","0","1","/","1","9","9","8">>,
          <<"N","g","h","u1EC7"," ","A","n">>,
          <<"G","x"," ","K","i","m"," ","L","i","u00EA","n">>,
          <<"G","p"," ","V","i","n","h">>)

Sample08 ==
  Student(<<"S","V","0","0","8">>,
          <<"B","u00F9","i"," ","V","u0103","n"," ","H","u00F9","n","g">>,
          <<"1","9","/","0","4","/","1","9","9","5">>,
          <<"T","h","u00E1","i"," ","B","u00EC","n","h">>,
          <<"G","x"," ","K","u1EBB"," ","S","u1EB7","t">>,
          <<"G","p"," ","H","u1EA3","i"," ","P","h","u00F2","n","g">>)

Sample09 ==
  Student(<<"S","V","0","0","9">>,
          <<"u0110","i","n","h"," ","C","u00F4","n","g"," ","M","i","n","h">>,
          <<"2","6","/","1","0","/","1","9","9","7">>,
          <<"Q","u","u1EA3","n","g"," ","N","i","n","h">>,
          <<"G","x"," ","C","u1EED","a"," ","u00D4","n","g">>,
          <<"G","p"," ","H","u00E0"," ","N","u1ED9","i">>)

Sample10 ==
  Student(<<"S","V","0","1","0">>,
          <<"N","g","u00F4"," ","T","h","u00E0","n","h"," ","N","a","m">>,
          <<"1","2","/","0","6","/","1","9","9","6">>,
          <<"C","u1EA7","n"," ","T","h","u01A1">>,
          <<"G","x"," ","C","h","u00ED","n","h"," ","T","u00F2","a">>,
          <<"G","p"," ","C","u1EA7","n"," ","T","h","u01A1">>)

sample_students ==
  << Sample01, Sample02, Sample03, Sample04, Sample05,
     Sample06, Sample07, Sample08, Sample09, Sample10 >>

(***************************************************************************)
(* The JSON document students_data.json.  Its text is a sequence of        *)
(* tokens in the order json.dump writes them, so that an interrupted       *)
(* write leaves a proper prefix of the text.                               *)
(***************************************************************************)
NoRecord == [none |-> TRUE]

Punct(t) == [t |-> t, rec |-> NoRecord, n |-> 0]
RecordTok(d) == [t |-> "record", rec |-> d, n |-> 0]
CountTok(k) == [t |-> "total_count", rec |-> NoRecord, n |-> k]

RECURSIVE RecordToks(_)
RecordToks(ds) ==
  IF ds = << >> THEN << >> ELSE << RecordTok(Head(ds)) >> \o RecordToks(Tail(ds))

\* json.dump of {"students": [...], "last_updated": ..., "total_count": n}.
json_dump(dicts, count) ==
  << Punct("{"), Punct("students[") >> \o RecordToks(dicts)
    \o << Punct("]"), Punct("last_updated"), CountTok(count), Punct("}") >>

\* Position of the first "]" of a member list, 0 when there is none.
ArrayEnd(body) ==
  IF \E j \in 1..Len(body) : body[j].t = "]"
    THEN CHOOSE j \in 1..Len(body) :
           body[j].t = "]" /\ \A k \in 1..(j - 1) : body[k].t # "]"
    ELSE 0

\* The members of a JSON object: "students": [record*], "last_updated",
\* "total_count", each optional.
RECURSIVE MembersOk(_)
MembersOk(body) ==
  IF body = << >> THEN TRUE
  ELSE IF Head(body).t = "students["
    THEN LET e == ArrayEnd(body)
         IN  /\ e > 0
             /\ \A k \in 2..(e - 1) : body[k].t = "record"
             /\ MembersOk(SubSeq(body, e + 1, Len(body)))
  ELSE IF Head(body).t \in {"last_updated", "total_count"}
    THEN MembersOk(Tail(body))
  ELSE FALSE

RECURSIVE StudentsMember(_)
StudentsMember(body) ==
  IF body = << >> THEN [present |-> FALSE, dicts |-> << >>]
  ELSE IF Head(body).t = "students["
    THEN [present |-> TRUE,
          dicts |-> [k \in 1..(ArrayEnd(body) - 2) |-> body[k + 1].rec]]
  ELSE StudentsMember(Tail(body))

\* json.load: ok = FALSE stands for JSONDecodeError.
json_load(text) ==
  LET body == SubSeq(text, 2, Len(text) - 1)
  IN  IF /\ Len(text) >= 2
         /\ text[1].t = "{"
         /\ text[Len(text)].t = "}"
         /\ MembersOk(body)
        THEN [ok |-> TRUE, data |-> StudentsMember(body)]
        ELSE [ok |-> FALSE, data |-> [present |-> FALSE, dicts |-> << >>]]

NoFile == [exists |-> FALSE, text |-> << >>]
File(text) == [exists |-> TRUE, text |-> text]

(***************************************************************************)
(* The environment: what a call of open()/json.dump()/json.load() does.    *)
(***************************************************************************)
\* A write succeeds, fails in open() before the file is touched, or fails
\* in json.dump() after open(.., "w") truncated the file and `at` tokens
\* of the text were written.
WriteOk == [kind |-> "ok", at |-> 0]
WriteOpenFails == [kind |-> "open_fails", at |-> 0]
WriteDumpFails(k) == [kind |-> "dump_fails", at |-> k]

IsFailure(w) == w.kind # "ok"

(***************************************************************************)
(* State                                                                   *)
(***************************************************************************)
VARIABLES
  students,     \* StudentManager.students
  document,     \* the file students_data.json
  log,          \* what the last call did, in order: save_data, signals emitted
  call,         \* the last call: operation, arguments, return value
  last_saved,   \* the collection at the last save_data that returned True
  faults,       \* number of failed reads and writes so far
  held,         \* a Student object held by a caller
  today,        \* the date datetime.now() gives
  snapshot,     \* the list get_all_students returned to a caller
  csv_file,     \* the file export_to_csv wrote, when not the document
  session_file, \* the file session.json
  now,          \* the time datetime.now() gives, in hours
  history,      \* when save_user_session last ran, and whether a clear followed
  email_input,  \* text of the login window's emailInput
  password_input, \* text of the login window's passwordInput
  submit_enabled, \* submitButton.isEnabled()
  timers,       \* pending QTimer.singleShot(500, accept_login) calls
  accepted,     \* the accept_login runs so far: the email each one used
  window_open   \* the login window is shown

storeVars == << students, document, log, call, last_saved, faults >>
recordVars == << held, today >>
queryVars == << snapshot, csv_file >>
sessionVars == << session_file, now, history >>
loginVars == << email_input, password_input, submit_enabled, timers,
                accepted, window_open >>

vars == << storeVars, recordVars, queryVars, sessionVars, loginVars >>

NoStudent == [none |-> TRUE]

Call(op, id, student, ret, save, result) ==
  [op |-> op, id |-> id, student |-> student, ret |-> ret,
   save |-> save, result |-> result]

Event(name, arg) == [event |-> name, arg |-> arg]

\* The parts of the state a specification does not use stay as they are
\* here.
NoDate == [year |-> 0, month |-> 0, day |-> 0]
NoList == [list |-> "none", items |-> << >>]
NoSessionFile == [exists |-> FALSE, user_email |-> << >>, expires_at |-> 0,
                  is_active |-> FALSE]
NoHistory == [saved |-> FALSE, saved_at |-> 0, cleared |-> FALSE]

RecordIdle == held = NoStudent /\ today = NoDate
QueryIdle == snapshot = NoList /\ csv_file = NoFile
SessionIdle == session_file = NoSessionFile /\ now = 0 /\ history = NoHistory
LoginIdle ==
  /\ email_input = << >>
  /\ password_input = << >>
  /\ submit_enabled = TRUE
  /\ timers = << >>
  /\ accepted = << >>
  /\ window_open = FALSE

mutation_log_generic_first(signal, student_id) ==
  << Event("save_data", << >>), Event("students_changed", << >>),
     Event(signal, student_id) >>

\* The tail of a successful mutation: save_data(), then the specific
\* signal with the id, then students_changed.
mutation_log(signal, student_id) ==
  << Event("save_data", << >>), Event(signal, student_id),
     Event("students_changed", << >>) >>

\* create_sample_data calls save_data and emits nothing.
load_log(sampled) == IF sampled THEN << Event("save_data", << >>) >> ELSE << >>

(***************************************************************************)
(* StudentManager                                                          *)
(***************************************************************************)
RECURSIVE MapToDict(_)
MapToDict(ss) ==
  IF ss = << >> THEN << >> ELSE << to_dict(Head(ss)) >> \o MapToDict(Tail(ss))

RECURSIVE MapFromDict(_)
MapFromDict(ds) ==
  IF ds = << >> THEN << >> ELSE << from_dict(Head(ds)) >> \o MapFromDict(Tail(ds))

\* save_data: the document after the call and the value returned.
save_data(ss, doc, w) ==
  LET text == json_dump(MapToDict(ss), Len(ss))
  IN  IF w.kind = "ok" THEN [document |-> File(text), ret |-> TRUE]
      ELSE IF w.kind = "open_fails" THEN [document |-> doc, ret |-> FALSE]
      ELSE [document |-> File(SubSeq(text, 1, w.at)), ret |-> FALSE]

\* The writes the environment can answer a save of ss with.  A failed dump
\* leaves a proper prefix of the text (Len(ss) + 6 tokens): the shortest,
\* an empty file, and the longest, all but the closing brace, are explored.
Writes(ss) ==
  {WriteOk, WriteOpenFails}
    \cup {WriteDumpFails(k) : k \in {0, Len(ss) + 5}}

SaveLabel(r) == IF r.ret THEN "ok" ELSE "failed"

Saved(r, ss, prev) == IF r.ret THEN [valid |-> TRUE, students |-> ss] ELSE prev

read_students_valid_prefix(doc, readable) ==
  LET parsed == json_load(doc.text)
      dicts == IF parsed.data.present THEN parsed.data.dicts ELSE << >>
      n == IF \A k \in 1..Len(dicts) : IsValid(dicts[k]) THEN Len(dicts)
           ELSE (CHOOSE k \in 1..Len(dicts) :
                   ~IsValid(dicts[k]) /\ \A j \in 1..(k - 1) : IsValid(dicts[j])) - 1
  IN  IF readable /\ parsed.ok
        THEN [ok |-> TRUE, students |-> MapFromDict(SubSeq(dicts, 1, n))]
        ELSE [ok |-> FALSE, students |-> << >>]

\* load_data without create_sample_data: the collection read from the
\* document; ok = FALSE when the except branch is taken.
read_students(doc, readable) ==
  LET parsed == json_load(doc.text)
      dicts == IF parsed.data.present THEN parsed.data.dicts ELSE << >>
  IN  IF readable /\ parsed.ok /\ \A k \in 1..Len(dicts) : IsValid(dicts[k])
        THEN [ok |-> TRUE, students |-> MapFromDict(dicts)]
        ELSE [ok |-> FALSE, students |-> << >>]

\* load_data: the collection, the document (create_sample_data saves) and
\* the value returned.
load_data(doc, readable, w) ==
  IF ~doc.exists
    THEN LET s == save_data(sample_students, doc, w)
         IN  [students |-> sample_students, document |-> s.document,
              ret |-> TRUE, save |-> SaveLabel(s), sampled |-> TRUE]
    ELSE LET r == read_students(doc, readable)
         IN  IF r.ok
               THEN [students |-> r.students, document |-> doc,
                     ret |-> TRUE, save |-> "none", sampled |-> FALSE]
               ELSE LET s == save_data(sample_students, doc, w)
                    IN  [students |-> sample_students, document |-> s.document,
                         ret |-> FALSE, save |-> SaveLabel(s), sampled |-> TRUE]

IndexOfId_after_first(ss, student_id) ==
  IF \E i \in 2..Len(ss) : ss[i].id = student_id
    THEN CHOOSE i \in 2..Len(ss) :
           ss[i].id = student_id /\ \A k \in 2..(i - 1) : ss[k].id # student_id
    ELSE 0

\* The loop over self.students: the position of the first student with
\* that id, 0 when there is none.
IndexOfId(ss, student_id) ==
  IF \E i \in 1..Len(ss) : ss[i].id = student_id
    THEN CHOOSE i \in 1..Len(ss) :
           ss[i].id = student_id /\ \A k \in 1..(i - 1) : ss[k].id # student_id
    ELSE 0

get_student_by_id(ss, student_id) ==
  IF IndexOfId(ss, student_id) = 0 THEN NoStudent
  ELSE ss[IndexOfId(ss, student_id)]

\* list.pop(i)
Pop(ss, i) == SubSeq(ss, 1, i - 1) \o SubSeq(ss, i + 1, Len(ss))

Replace_at_end(ss, i, updated_student) == Append(Pop(ss, i), updated_student)

\* self.students[i] = updated_student
Replace(ss, i, updated_student) == [ss EXCEPT ![i] = updated_student]

RECURSIVE MaxNum(_, _)
MaxNum(ss, max_num) ==
  IF ss = << >> THEN max_num
  ELSE LET id == Head(ss).id
           num == int(SubSeq(id, 3, Len(id)))
       IN  IF startswith(id, << "S", "V" >>) /\ num.ok
             THEN MaxNum(Tail(ss), Max(max_num, num.val))
             ELSE MaxNum(Tail(ss), max_num)

generate_next_id(ss) ==
  IF ss = << >> THEN << "S", "V", "0", "0", "1" >>
  ELSE << "S", "V" >> \o Format03d(MaxNum(ss, 0) + 1)

(***************************************************************************)
(* Inputs: the Students and ids the presentation layer calls the store     *)
(* with, and the documents found on disk when the program starts.          *)
(***************************************************************************)
Date1 == << "0", "1", "/", "0", "2", "/", "2", "0", "0", "0" >>

Person(id) == Fields(id, << "A", "n" >>, Date1, << "H", "u", "e" >>,
                     << "G", "x" >>, << "G", "p" >>)

\* Field sets a Student is constructed from; construction raises for the
\* invalid ones, so no store call is made with them.
NewStudentFields ==
  { Person(<< "S", "V", "0", "0", "1" >>),
    Person(<< "S", "V", "+", "1", "2" >>),
    Person(<< "X", "1" >>) }

NewStudents == {from_dict(d) : d \in {e \in NewStudentFields : IsValid(e)}}

StudentIds ==
  { << "S", "V", "0", "0", "1" >>,
    << "S", "V", "+", "1", "2" >> }

InitialDocuments ==
  { NoFile,
    \* written by an earlier run
    File(json_dump(<< >>, 0)),
    File(json_dump(<< Person(<< "S", "V", "0", "0", "1" >>) >>, 1)),
    \* edited by hand: an id that validation upper-cases
    File(json_dump(<< Person(<< "S", "V", "0", "0", "2" >>),
                      Person(<< "S", "V", "a", "7" >>) >>, 2)),
    \* a record that fails validation after a valid one
    File(json_dump(<< Person(<< "S", "V", "0", "0", "1" >>),
                      Person(<< "s", "v", "2" >>) >>, 2)),
    \* a JSON object without the "students" key
    File(<< Punct("{"), CountTok(0), Punct("}") >>),
    \* not JSON: an empty file, a truncated text
    File(<< >>),
    File(<< Punct("{"), Punct("students["),
            RecordTok(Person(<< "S", "V", "0", "0", "1" >>)) >>) }

\* The number of students of the collection that are not sample students.
NewCount(ss) ==
  Cardinality({i \in 1..Len(ss) :
                 \A k \in 1..Len(sample_students) : ss[i] # sample_students[k]})

Fault(failed) == IF failed THEN 1 ELSE 0

(***************************************************************************)
(* StudentManager.__init__                                                 *)
(***************************************************************************)
StoreInit ==
  \E doc \in InitialDocuments, w \in Writes(sample_students) :
    LET r == load_data(doc, TRUE, w)
    IN  /\ (~r.sampled) => w = WriteOk
        /\ Fault(IsFailure(w)) <= MaxFaults
        /\ students = r.students
        /\ document = r.document
        /\ log = load_log(r.sampled)
        /\ call = Call("load_data", << >>, NoStudent, r.ret, r.save, << >>)
        /\ last_saved = IF r.save = "ok"
                          THEN [valid |-> TRUE, students |-> r.students]
                          ELSE [valid |-> FALSE, students |-> << >>]
        /\ faults = Fault(IsFailure(w))

(***************************************************************************)
(* Operations                                                              *)
(***************************************************************************)
MayFail(w) == IsFailure(w) => faults < MaxFaults

add_student(student, w) ==
  IF get_student_by_id(students, student.id) # NoStudent
    THEN /\ w = WriteOk
         /\ log' = << >>
         /\ call' = Call("add_student", student.id, student, FALSE, "none", << >>)
         /\ UNCHANGED << students, document, last_saved, faults >>
    ELSE LET ss == Append(students, student)
             s == save_data(ss, document, w)
         IN  /\ w \in Writes(ss)
             /\ NewCount(students) < MaxNewStudents
             /\ MayFail(w)
             /\ students' = ss
             /\ document' = s.document
             /\ last_saved' = Saved(s, ss, last_saved)
             /\ faults' = faults + Fault(IsFailure(w))
             /\ log' = mutation_log("student_added", student.id)
             /\ call' = Call("add_student", student.id, student, TRUE,
                             SaveLabel(s), << >>)

update_student(student_id, updated_student, w) ==
  LET i == IndexOfId(students, student_id)
  IN  IF i = 0
        THEN /\ w = WriteOk
             /\ log' = << >>
             /\ call' = Call("update_student", student_id, updated_student,
                             FALSE, "none", << >>)
             /\ UNCHANGED << students, document, last_saved, faults >>
        ELSE LET ss == Replace(students, i, updated_student)
                 s == save_data(ss, document, w)
             IN  /\ w \in Writes(ss)
                 /\ MayFail(w)
                 /\ students' = ss
                 /\ document' = s.document
                 /\ last_saved' = Saved(s, ss, last_saved)
                 /\ faults' = faults + Fault(IsFailure(w))
                 /\ log' = mutation_log("student_updated", student_id)
                 /\ call' = Call("update_student", student_id, updated_student,
                                 TRUE, SaveLabel(s), << >>)

delete_student(student_id, w) ==
  LET i == IndexOfId(students, student_id)
  IN  IF i = 0
        THEN /\ w = WriteOk
             /\ log' = << >>
             /\ call' = Call("delete_student", student_id, NoStudent,
                             FALSE, "none", << >>)
             /\ UNCHANGED << students, document, last_saved, faults >>
        ELSE LET ss == Pop(students, i)
                 s == save_data(ss, document, w)
             IN  /\ w \in Writes(ss)
                 /\ MayFail(w)
                 /\ students' = ss
                 /\ document' = s.document
                 /\ last_saved' = Saved(s, ss, last_saved)
                 /\ faults' = faults + Fault(IsFailure(w))
                 /\ log' = mutation_log("student_deleted", student_id)
                 /\ call' = Call("delete_student", student_id, NoStudent,
                                 TRUE, SaveLabel(s), << >>)

\* load_data called again on the running store (refresh_students).
reload_data(readable, w) ==
  LET r == load_data(document, readable, w)
  IN  /\ w \in Writes(sample_students)
      /\ (~r.sampled) => w = WriteOk
      /\ faults + Fault(~readable) + Fault(r.sampled /\ IsFailure(w))
           <= MaxFaults
      /\ students' = r.students
      /\ document' = r.document
      /\ last_saved' = IF r.save = "ok"
                         THEN [valid |-> TRUE, students |-> r.students]
                         ELSE last_saved
      /\ faults' = faults + Fault(~readable) + Fault(r.sampled /\ IsFailure(w))
      /\ log' = load_log(r.sampled)
      /\ call' = Call("load_data", << >>, NoStudent, r.ret, r.save, << >>)

\* generate_next_id called on the running store.
GenerateNextId ==
  /\ log' = << >>
  /\ call' = Call("generate_next_id", << >>, NoStudent, TRUE, "none",
                  generate_next_id(students))
  /\ UNCHANGED << students, document, last_saved, faults >>

\* Every answer of the environment to a write of some collection.
AllWrites ==
  {WriteOk, WriteOpenFails}
    \cup {WriteDumpFails(k) : k \in 0..(Len(sample_students) + MaxNewStudents + 5)}

AddStudent == \E student \in NewStudents, w \in AllWrites : add_student(student, w)

UpdateStudent ==
  \E student_id \in StudentIds, student \in NewStudents, w \in AllWrites :
    update_student(student_id, student, w)

DeleteStudent == \E student_id \in StudentIds, w \in AllWrites : delete_student(student_id, w)

LoadData == \E readable \in BOOLEAN, w \in AllWrites : reload_data(readable, w)

Init == StoreInit /\ RecordIdle /\ QueryIdle /\ SessionIdle /\ LoginIdle

NotStore == << recordVars, queryVars, sessionVars, loginVars >>

Next ==
  \/ AddStudent /\ UNCHANGED NotStore
  \/ UpdateStudent /\ UNCHANGED NotStore
  \/ DeleteStudent /\ UNCHANGED NotStore
  \/ LoadData /\ UNCHANGED NotStore
  \/ GenerateNextId /\ UNCHANGED NotStore

Spec == Init /\ [][Next]_vars

(***************************************************************************)
(* Student objects: construction, assignment, to_dict/from_dict, get_age   *)
(***************************************************************************)
Date(year, month, day) == [year |-> year, month |-> month, day |-> day]

get_age_day_inclusive(birth_date, t) ==
  LET b == strptime(birth_date)
  IN  IF ~b.ok THEN 0
      ELSE IF t.month < b.month \/ (t.month = b.month /\ t.day <= b.day)
        THEN t.year - b.year - 1
        ELSE t.year - b.year

\* get_age of a Student whose stored birth_date is birth_date, when
\* datetime.now() is the date t; 0 is the except branch.
get_age(birth_date, t) ==
  LET b == strptime(birth_date)
  IN  IF ~b.ok THEN 0
      ELSE IF t.month < b.month \/ (t.month = b.month /\ t.day < b.day)
        THEN t.year - b.year - 1
        ELSE t.year - b.year

\* validate_assignment: the value one field takes, after its constraints
\* and its validator; ok = FALSE stands for ValidationError.
validate_field(field, value) ==
  IF field = "id"
    THEN [ok |-> LengthOk(value, IdMinLength, IdMaxLength)
                   /\ validate_student_id(value),
          value |-> upper(value)]
  ELSE IF field = "birth_date"
    THEN [ok |-> validate_birth_date(value), value |-> value]
  ELSE IF field \in FieldNames
    THEN [ok |-> LengthOk(value, TextMinLength, TextMaxLength), value |-> value]
  ELSE [ok |-> FALSE, value |-> value]

RECURSIVE Repeat(_, _)
Repeat(c, n) == IF n = 0 THEN << >> ELSE << c >> \o Repeat(c, n - 1)

Date2 == << "1", "5", "/", "0", "3", "/", "1", "9", "9", "5" >>

On(id, birth_date) ==
  Fields(id, << "A", "n" >>, birth_date, << "H", "u", "e" >>,
         << "G", "x" >>, << "G", "p" >>)

\* The mappings Student(...) and from_dict are called with.
ConstructInputs ==
  { On(<< "S", "V", "0", "0", "1" >>, Date2),
    On(<< "S", "V", "a", "7" >>, Date2),
    On(<< "S", "V" >>, Date2),
    On(<< "X", "1" >>, Date2),
    On(<< "s", "v", "0", "0", "1" >>, Date2),
    On(<< "S", "V", "1", "2", "3", "4", "5", "6", "7", "8", "9" >>, Date2),
    On(<< "S", "V", "u00DF", "u00DF", "u00DF", "u00DF", "u00DF" >>, Date2),
    On(<< "S", "V", "0", "0", "2" >>, << "5", "/", "3", "/", "1", "9", "9", "5" >>),
    On(<< "S", "V", "0", "0", "2" >>,
       << "1", "9", "9", "5", "-", "0", "3", "-", "1", "5" >>),
    On(<< "S", "V", "0", "0", "2" >>,
       << "0", "3", "/", "1", "5", "/", "1", "9", "9", "5" >>),
    On(<< "S", "V", "0", "0", "2" >>,
       << "3", "1", "/", "0", "2", "/", "2", "0", "0", "0" >>),
    On(<< "S", "V", "0", "0", "2" >>,
       << "2", "9", "/", "0", "2", "/", "2", "0", "0", "0" >>),
    [On(<< "S", "V", "0", "0", "3" >>, Date2) EXCEPT !.name = << >>],
    [On(<< "S", "V", "0", "0", "3" >>, Date2) EXCEPT !.name = Repeat("n", TextMaxLength)],
    [On(<< "S", "V", "0", "0", "3" >>, Date2) EXCEPT !.parish = Repeat("p", TextMaxLength + 1)],
    \* a missing field, an unknown field
    [id |-> << "S", "V", "0", "0", "4" >>, name |-> << "A", "n" >>,
     birth_date |-> Date2, hometown |-> << "H", "u", "e" >>,
     parish |-> << "G", "x" >>],
    [id |-> << "S", "V", "0", "0", "4" >>, name |-> << "A", "n" >>,
     birth_date |-> Date2, hometown |-> << "H", "u", "e" >>,
     parish |-> << "G", "x" >>, diocese |-> << "G", "p" >>,
     nickname |-> << "A" >>] }

\* The (field, value) pairs assigned to a Student.
AssignInputs ==
  { << "id", << "S", "V", "0", "0", "9" >> >>,
    << "id", << "S", "V", "b" >> >>,
    << "id", << "X", "1" >> >>,
    << "id", << "S", "V", "u00DF", "u00DF", "u00DF", "u00DF", "u00DF" >> >>,
    << "name", << >> >>,
    << "name", << "B", "o" >> >>,
    << "birth_date", << "5", "/", "3", "/", "1", "9", "9", "5" >> >>,
    << "birth_date", << "1", "5", ".", "0", "3", ".", "1", "9", "9", "5" >> >>,
    << "diocese", Repeat("d", TextMaxLength + 1) >>,
    << "nickname", << "A" >> >> }

\* The stored birth dates get_age is asked for; the last two do not parse.
StoredBirthDates ==
  { Date2,
    << "2", "9", "/", "0", "2", "/", "2", "0", "0", "0" >>,
    << "3", "1", "/", "1", "2", "/", "1", "9", "9", "9" >>,
    << "1", "9", "9", "5", "-", "0", "3", "-", "1", "5" >>,
    << >> }

\* The dates datetime.now() gives.
Todays ==
  { Date(2024, 3, 14), Date(2024, 3, 15), Date(2024, 3, 16), Date(2024, 2, 29),
    Date(2024, 12, 31), Date(2023, 2, 28), Date(2000, 1, 1) }

RecordInit ==
  /\ held = NoStudent
  /\ today = Date(2024, 3, 14)
  /\ call = Call("none", << >>, NoStudent, TRUE, "none", << >>)
  /\ students = << >>
  /\ document = NoFile
  /\ log = << >>
  /\ last_saved = [valid |-> FALSE, students |-> << >>]
  /\ faults = 0
  /\ QueryIdle /\ SessionIdle /\ LoginIdle

\* Student(**data) and Student.from_dict(data).
construct(op, data) ==
  /\ held' = IF IsValid(data) THEN from_dict(data) ELSE held
  /\ call' = Call(op, << >>, data, IsValid(data), "none", << >>)
  /\ UNCHANGED today

\* student.field = value
SetAttr ==
  \E a \in AssignInputs :
    LET field == a[1]
        v == validate_field(field, a[2])
    IN  /\ held # NoStudent
        /\ held' = IF v.ok THEN [held EXCEPT ![field] = v.value] ELSE held
        /\ call' = Call("setattr", << >>, held, v.ok, "none", << >>)
        /\ UNCHANGED today

\* Student.from_dict(student.to_dict())
RoundTrip ==
  /\ held # NoStudent
  /\ call' = Call("round_trip", << >>,
                  IF IsValid(to_dict(held)) THEN from_dict(to_dict(held))
                  ELSE NoStudent,
                  IsValid(to_dict(held)), "none", << >>)
  /\ UNCHANGED << held, today >>

\* student.get_age() at the date datetime.now() gives.
GetAge ==
  \E birth_date \in StoredBirthDates, t \in Todays :
    /\ today' = t
    /\ call' = Call("get_age", birth_date, NoStudent, TRUE, "none",
                    get_age(birth_date, t))
    /\ UNCHANGED held

Construct == \E data \in ConstructInputs : construct("Student", data)
FromDict == \E data \in ConstructInputs : construct("from_dict", data)

RecordFrame ==
  UNCHANGED << students, document, log, last_saved, faults,
               queryVars, sessionVars, loginVars >>

RecordNext ==
  \/ Construct /\ RecordFrame
  \/ FromDict /\ RecordFrame
  \/ SetAttr /\ RecordFrame
  \/ RoundTrip /\ RecordFrame
  \/ GetAge /\ RecordFrame

RecordSpec == RecordInit /\ [][RecordNext]_vars

(***************************************************************************)
(* Query operations and export_to_csv                                      *)
(***************************************************************************)
\* str.lower() of one character; the upper-case letters outside ASCII that
\* the data uses are the D with stroke (u0110) and the O with circumflex
\* (u00D4).
LowerChar(c) ==
  IF \E i \in 1..26 : UpperChars[i] = c
    THEN LowerChars[CHOOSE i \in 1..26 : UpperChars[i] = c]
    ELSE IF c = "u0110" THEN "u0111"
    ELSE IF c = "u00D4" THEN "u00F4"
    ELSE c

RECURSIVE lower(_)
lower(v) == IF v = << >> THEN << >> ELSE << LowerChar(Head(v)) >> \o lower(Tail(v))

\* q in v
contains(v, q) ==
  \E i \in 0..(Len(v) - Len(q)) : SubSeq(v, i + 1, i + Len(q)) = q

get_all_students_same_list(ss) == [list |-> "self.students", items |-> ss]

\* get_all_students: a new list with the same Student objects.
get_all_students(ss) == [list |-> "copy", items |-> ss]

\* The loop of search_students over the collection, q the query after
\* lower() and strip().
RECURSIVE search_loop(_, _)
search_loop(ss, q) ==
  IF ss = << >> THEN << >>
  ELSE LET student == Head(ss)
       IN  (IF \/ contains(lower(student.id), q)
               \/ contains(lower(student.name), q)
               \/ contains(lower(student.hometown), q)
               \/ contains(lower(student.parish), q)
               \/ contains(lower(student.diocese), q)
              THEN << student >> ELSE << >>)
             \o search_loop(Tail(ss), q)

search_students_raw_query(ss, query) ==
  IF strip(query) = << >> THEN get_all_students(ss).items
  ELSE search_loop(ss, lower(query))

search_students(ss, query) ==
  IF strip(query) = << >> THEN get_all_students(ss).items
  ELSE search_loop(ss, strip(lower(query)))

\* filter_by_diocese, filter_by_parish, filter_by_hometown
RECURSIVE filter_by(_, _, _)
filter_by(ss, field, value) ==
  IF ss = << >> THEN << >>
  ELSE (IF lower(Head(ss)[field]) = lower(value) THEN << Head(ss) >> ELSE << >>)
         \o filter_by(Tail(ss), field, value)

count_value_once(d, key) ==
  [k \in DOMAIN d \cup {key} |-> IF k = key THEN 1 ELSE d[k]]

\* d[key] = d.get(key, 0) + 1
count_value(d, key) ==
  [k \in DOMAIN d \cup {key} |-> IF k = key THEN (IF key \in DOMAIN d THEN d[key] ELSE 0) + 1
                             ELSE d[k]]

\* The loop of get_statistics for one field, d the dictionary so far.
RECURSIVE count_by(_, _, _)
count_by(ss, field, d) ==
  IF ss = << >> THEN d
  ELSE count_by(Tail(ss), field, count_value(d, Head(ss)[field]))

get_statistics(ss) ==
  LET diocese_count == count_by(ss, "diocese", << >>)
      parish_count == count_by(ss, "parish", << >>)
      hometown_count == count_by(ss, "hometown", << >>)
  IN  [total_students |-> Len(ss),
       diocese_distribution |-> diocese_count,
       parish_distribution |-> parish_count,
       hometown_distribution |-> hometown_count,
       unique_dioceses |-> Cardinality(DOMAIN diocese_count),
       unique_parishes |-> Cardinality(DOMAIN parish_count),
       unique_hometowns |-> Cardinality(DOMAIN hometown_count)]

\* get_data_file_path(), and a path of another file.
DataFilePath == "src/students_data.json"
CsvPath == "students.csv"

\* The rows writer.writerow writes: the fields of a student and the age.
RECURSIVE CsvRows(_, _)
CsvRows(ss, t) ==
  IF ss = << >> THEN << >>
  ELSE << [t |-> "row", rec |-> to_dict(Head(ss)),
           n |-> get_age(Head(ss).birth_date, t)] >> \o CsvRows(Tail(ss), t)

\* The file at file_path after export_to_csv, and the value returned; old
\* is the file before.  open(file_path, "w") empties the file, the rows
\* follow the header.
export_to_csv(ss, old, t, w) ==
  LET text == << [t |-> "header", rec |-> NoRecord, n |-> 0] >> \o CsvRows(ss, t)
  IN  IF w.kind = "ok" THEN [file |-> File(text), ret |-> TRUE]
      ELSE IF w.kind = "open_fails" THEN [file |-> old, ret |-> FALSE]
      ELSE [file |-> File(SubSeq(text, 1, w.at)), ret |-> FALSE]

\* Search strings, and values the filters are called with.
Queries ==
  { << >>,
    << " ", " " >>,
    << "g", "p", " ", "h", "u00E0", " ", "n", "u1ED9", "i" >>,
    << "G", "P", " ", "H", "u00E0" >>,
    << "a", "n", " " >>,
    << " ", "S", "V", "0", "0", "1" >>,
    << "u0110", "u00E0" >>,
    << "z", "z" >> }

FilterValues ==
  { << "diocese", << "g", "p", " ", "h", "u00E0", " ", "n", "u1ED9", "i" >> >>,
    << "diocese", << "G", "P" >> >>,
    << "parish", << "G", "x", " ", "C", "h", "u00ED", "n", "h", " ", "T", "u00F2", "a" >> >>,
    << "hometown", << "h", "u", "e" >> >> }

\* The store was created from the document an earlier run wrote.
QueryInit ==
  /\ StoreInit
  /\ faults = 0
  /\ students # sample_students
  /\ snapshot = NoList
  /\ csv_file = NoFile
  /\ today = Date(2024, 3, 14)
  /\ held = NoStudent
  /\ SessionIdle /\ LoginIdle

Query(op, arg, result) ==
  /\ log' = << >>
  /\ call' = Call(op, arg, NoStudent, TRUE, "none", result)
  /\ UNCHANGED << students, document, last_saved, faults, snapshot, csv_file >>

GetAllStudents ==
  /\ snapshot' = get_all_students(students)
  /\ log' = << >>
  /\ call' = Call("get_all_students", << >>, NoStudent, TRUE, "none",
                  snapshot'.items)
  /\ UNCHANGED << students, document, last_saved, faults, csv_file >>

GetStudentById ==
  \E student_id \in StudentIds :
    /\ log' = << >>
    /\ call' = Call("get_student_by_id", student_id,
                    get_student_by_id(students, student_id), TRUE, "none", << >>)
    /\ UNCHANGED << students, document, last_saved, faults, snapshot, csv_file >>

SearchStudents ==
  \E query \in Queries :
    Query("search_students", query, search_students(students, query))

FilterBy ==
  \E f \in FilterValues :
    Query("filter_by", f, filter_by(students, f[1], f[2]))

GetStatistics == Query("get_statistics", << >>, get_statistics(students))

NextId == Query("generate_next_id", << >>, generate_next_id(students))

\* export_to_csv with the path of the document or of another file; the
\* write succeeds, fails at open or fails after the header.
ExportToCsv ==
  \E file_path \in {CsvPath, DataFilePath},
     w \in {WriteOk, WriteOpenFails, WriteDumpFails(1)} :
    LET old == IF file_path = DataFilePath THEN document ELSE csv_file
        r == export_to_csv(students, old, today, w)
    IN  /\ document' = IF file_path = DataFilePath THEN r.file ELSE document
        /\ csv_file' = IF file_path = DataFilePath THEN csv_file ELSE r.file
        /\ log' = << >>
        /\ call' = Call("export_to_csv", file_path, NoStudent, r.ret,
                        "none", << >>)
        /\ UNCHANGED << students, last_saved, faults, snapshot >>

\* The list a caller holds, after the store changed its own list in place.
Seen(list, ss) ==
  IF list.list = "self.students" THEN [list EXCEPT !.items = ss] ELSE list

\* add_student and delete_student with a save that succeeds.
AddSaved == \E student \in NewStudents : add_student(student, WriteOk)
DeleteSaved == \E student_id \in StudentIds : delete_student(student_id, WriteOk)

\* add_student and delete_student while a caller holds a returned list.
MutateStore ==
  /\ AddSaved \/ DeleteSaved
  /\ snapshot' = Seen(snapshot, students')
  /\ UNCHANGED csv_file

\* The caller clears the returned list or appends to it.
ChangeList ==
  \E change \in {"clear", "append"}, student \in NewStudents :
    LET items == IF change = "clear" THEN << >>
                 ELSE Append(snapshot.items, student)
    IN  /\ snapshot # NoList
        /\ change = "append" => NewCount(snapshot.items) < MaxNewStudents
        /\ snapshot' = [snapshot EXCEPT !.items = items]
        /\ students' = IF snapshot.list = "self.students" THEN items ELSE students
        /\ call' = Call(change, << >>, NoStudent, TRUE, "none", << >>)
        /\ UNCHANGED << document, log, last_saved, faults, csv_file >>

QueryFrame == UNCHANGED << recordVars, sessionVars, loginVars >>

QueryNext ==
  \/ GetAllStudents /\ QueryFrame
  \/ GetStudentById /\ QueryFrame
  \/ SearchStudents /\ QueryFrame
  \/ FilterBy /\ QueryFrame
  \/ GetStatistics /\ QueryFrame
  \/ NextId /\ QueryFrame
  \/ ExportToCsv /\ QueryFrame
  \/ MutateStore /\ QueryFrame
  \/ ChangeList /\ QueryFrame

QuerySpec == QueryInit /\ [][QueryNext]_vars

\* search_students and get_statistics on every collection the store is
\* created with, and on those add_student and delete_student make of them.
SearchInit ==
  /\ StoreInit
  /\ faults = 0
  /\ RecordIdle /\ QueryIdle /\ SessionIdle /\ LoginIdle

SearchNext ==
  \/ SearchStudents /\ QueryFrame
  \/ GetStatistics /\ QueryFrame
  \/ AddSaved /\ UNCHANGED queryVars /\ QueryFrame
  \/ DeleteSaved /\ UNCHANGED queryVars /\ QueryFrame

SearchSpec == SearchInit /\ [][SearchNext]_vars

\* generate_next_id on stores that hold numbered students, and the new
\* Student a caller builds with the id it returns.
NumberedStudents ==
  { from_dict(Person(id)) :
      id \in { << "S", "V", "1", "2" >>,
               << "S", "V", "0", "9", "9" >>,
               << "S", "V", "9", "9", "9" >>,
               << "S", "V", "9", "9", "9", "9", "9", "9", "9", "9" >> } }

AddNumbered ==
  \E student \in NumberedStudents \cup NewStudents : add_student(student, WriteOk)

\* Student(id=generate_next_id(), ...) and, when it is constructed,
\* add_student of it.
AddWithNextId ==
  LET data == Person(generate_next_id(students))
  IN  IF IsValid(data)
        THEN add_student(from_dict(data), WriteOk)
        ELSE /\ log' = << >>
             /\ call' = Call("Student", data.id, data, FALSE, "none", << >>)
             /\ UNCHANGED << students, document, last_saved, faults >>

NextIdNext ==
  \/ NextId /\ QueryFrame
  \/ AddNumbered /\ UNCHANGED queryVars /\ QueryFrame
  \/ AddWithNextId /\ UNCHANGED queryVars /\ QueryFrame
  \/ DeleteSaved /\ UNCHANGED queryVars /\ QueryFrame

NextIdSpec == SearchInit /\ [][NextIdNext]_vars

(***************************************************************************)
(* SessionManager                                                          *)
(***************************************************************************)
SESSION_DURATION_HOURS == 24

AdminEmail == << "a", "d", "m", "i", "n", "@", "s", "e", "m", "i", "n", "a", "r", "y", ".", "e", "d", "u" >>
UserEmail == << "u", "s", "e", "r", "@", "s", "e", "m", "i", "n", "a", "r", "y", ".", "e", "d", "u" >>

NoSession == [none |-> TRUE]

\* save_user_session at the time t, in hours: the session file it writes.
save_user_session(email, t) ==
  [exists |-> TRUE, user_email |-> email,
   expires_at |-> t + SESSION_DURATION_HOURS, is_active |-> TRUE]

\* clear_user_session: the session file after it.
clear_user_session(file) == NoSessionFile

check_existing_session_no_expiry(file, t) ==
  IF ~file.exists THEN [session |-> NoSession, file |-> file]
  ELSE IF file.is_active
    THEN [session |-> [user_email |-> file.user_email,
                       expires_at |-> file.expires_at,
                       is_active |-> file.is_active],
          file |-> file]
  ELSE [session |-> NoSession, file |-> file]

\* check_existing_session at the time t: the session it returns (NoSession
\* for None) and the session file after it.
check_existing_session(file, t) ==
  IF ~file.exists THEN [session |-> NoSession, file |-> file]
  ELSE IF t > file.expires_at
    THEN [session |-> NoSession, file |-> NoSessionFile]
  ELSE IF file.is_active
    THEN [session |-> [user_email |-> file.user_email,
                       expires_at |-> file.expires_at,
                       is_active |-> file.is_active],
          file |-> file]
  ELSE [session |-> NoSession, file |-> file]

SessionInit ==
  /\ session_file = NoSessionFile
  /\ now = 0
  /\ history = NoHistory
  /\ call = Call("none", << >>, NoStudent, TRUE, "none", << >>)
  /\ students = << >>
  /\ document = NoFile
  /\ log = << >>
  /\ last_saved = [valid |-> FALSE, students |-> << >>]
  /\ faults = 0
  /\ RecordIdle /\ QueryIdle /\ LoginIdle

SaveUserSession ==
  \E email \in {AdminEmail, UserEmail} :
    /\ session_file' = save_user_session(email, now)
    /\ history' = [saved |-> TRUE, saved_at |-> now, cleared |-> FALSE]
    /\ call' = Call("save_user_session", email, NoStudent, TRUE, "none", << >>)
    /\ UNCHANGED now

ClearUserSession ==
  /\ session_file' = clear_user_session(session_file)
  /\ history' = [history EXCEPT !.cleared = TRUE]
  /\ call' = Call("clear_user_session", << >>, NoStudent, TRUE, "none", << >>)
  /\ UNCHANGED now

CheckExistingSession ==
  LET r == check_existing_session(session_file, now)
  IN  /\ session_file' = r.file
      /\ call' = Call("check_existing_session", << >>, NoStudent, TRUE, "none",
                      r.session)
      /\ UNCHANGED << now, history >>

\* is_session_valid: session is not None
IsSessionValid ==
  LET r == check_existing_session(session_file, now)
  IN  /\ session_file' = r.file
      /\ call' = Call("is_session_valid", << >>, NoStudent, TRUE, "none",
                      r.session # NoSession)
      /\ UNCHANGED << now, history >>

\* get_current_user: the session's user_email, or None
GetCurrentUser ==
  LET r == check_existing_session(session_file, now)
  IN  /\ session_file' = r.file
      /\ call' = Call("get_current_user", << >>, NoStudent, TRUE, "none",
                      IF r.session # NoSession
                        THEN [user_email |-> r.session.user_email]
                        ELSE NoSession)
      /\ UNCHANGED << now, history >>

\* Time passes: 12 or 13 hours.
Advance ==
  \E d \in {12, 13} :
    /\ now + d <= MaxNow
    /\ now' = now + d
    /\ UNCHANGED << session_file, history, call >>

SessionFrame ==
  UNCHANGED << students, document, log, last_saved, faults,
               recordVars, queryVars, loginVars >>

SessionNext ==
  \/ SaveUserSession /\ SessionFrame
  \/ ClearUserSession /\ SessionFrame
  \/ CheckExistingSession /\ SessionFrame
  \/ IsSessionValid /\ SessionFrame
  \/ GetCurrentUser /\ SessionFrame
  \/ Advance /\ SessionFrame

SessionSpec == SessionInit /\ [][SessionNext]_vars

(***************************************************************************)
(* MainWindow: the login window                                            *)
(***************************************************************************)
PasswordMinLength == 6

IsLetter(c) ==
  \E i \in 1..26 : LowerChars[i] = c \/ UpperChars[i] = c

\* [a-zA-Z0-9._%+-] and [a-zA-Z0-9.-]
IsLocalChar(c) == IsLetter(c) \/ IsDigit(c) \/ c \in {".", "_", "%", "+", "-"}
IsDomainChar(c) == IsLetter(c) \/ IsDigit(c) \/ c \in {".", "-"}

\* email_regex.match(email): local part, "@", domain, ".", two letters or
\* more.
validate_email(email) ==
  \E a \in 1..Len(email), d \in 1..Len(email) :
    /\ email[a] = "@" /\ email[d] = "."
    /\ a > 1 /\ d > a + 1 /\ Len(email) >= d + 2
    /\ \A i \in 1..(a - 1) : IsLocalChar(email[i])
    /\ \A i \in (a + 1)..(d - 1) : IsDomainChar(email[i])
    /\ \A i \in (d + 1)..Len(email) : IsLetter(email[i])

AdminPassword == << "a", "d", "m", "i", "n", "1", "2", "3" >>
UserPassword == << "u", "s", "e", "r", "1", "2", "3" >>

\* valid_users.get(email) == password
authenticate_user(email, password) ==
  \/ email = AdminEmail /\ password = AdminPassword
  \/ email = UserEmail /\ password = UserPassword

\* What the user types into the two inputs.
EmailTexts ==
  { << >>,
    AdminEmail,
    UserEmail,
    << " " >> \o AdminEmail \o << " " >>,
    << "g", "u", "e", "s", "t", "@", "s", "e", "m", "i", "n", "a", "r", "y", ".", "e", "d", "u" >>,
    << "a", "d", "m", "i", "n" >> }

PasswordTexts ==
  { << >>, AdminPassword, UserPassword, << "a", "b", "c" >>, << "a", "d", "m", "i", "n", "1", "2", "3", "4" >> }

LoginInit ==
  /\ email_input = << >>
  /\ password_input = << >>
  /\ submit_enabled = TRUE
  /\ timers = << >>
  /\ accepted = << >>
  /\ window_open = TRUE
  /\ session_file = NoSessionFile
  /\ now = 0
  /\ history = NoHistory
  /\ call = Call("none", << >>, NoStudent, TRUE, "none", << >>)
  /\ students = << >>
  /\ document = NoFile
  /\ log = << >>
  /\ last_saved = [valid |-> FALSE, students |-> << >>]
  /\ faults = 0
  /\ RecordIdle /\ QueryIdle

\* The message handle_login shows, "" when it shows none.
login_error(email, password) ==
  IF email = << >> THEN "Vui long nhap email!"
  ELSE IF ~validate_email(email) THEN "Email khong hop le!"
  ELSE IF password = << >> THEN "Vui long nhap password!"
  ELSE IF Len(password) < PasswordMinLength THEN "Password phai co it nhat 6 ky tu!"
  ELSE IF ~authenticate_user(email, password) THEN "Email hoac password khong dung!"
  ELSE ""

\* handle_login, from the disabling of the button to its re-enabling in
\* the finally clause; a timer is kept with the email authenticate_user
\* accepted when it was started.
handle_login ==
  LET email == strip(email_input)
      password == strip(password_input)
      error == login_error(email, password)
  IN  /\ timers' = IF error = "" THEN Append(timers, [email |-> email])
                   ELSE timers
      /\ password_input' = IF error = "Email hoac password khong dung!"
                             THEN << >> ELSE password_input
      /\ submit_enabled' = TRUE
      /\ call' = Call("handle_login", email, NoStudent, error = "", "none", error)
      /\ UNCHANGED << email_input, accepted, window_open, session_file, now, history >>

\* accept_login, run by the oldest pending timer.
accept_login ==
  LET user_email == email_input
  IN  /\ timers # << >>
      /\ timers' = Tail(timers)
      /\ session_file' = save_user_session(user_email, now)
      /\ history' = [saved |-> TRUE, saved_at |-> now, cleared |-> FALSE]
      /\ accepted' = Append(accepted, [user_email |-> user_email,
                                       authenticated |-> Head(timers).email])
      /\ window_open' = FALSE
      /\ call' = Call("accept_login", user_email, NoStudent, TRUE, "none", << >>)
      /\ UNCHANGED << email_input, password_input, submit_enabled, now >>

\* The user edits an input of the window.
EditEmail ==
  \E text \in EmailTexts :
    /\ window_open
    /\ email_input' = text
    /\ UNCHANGED << password_input, submit_enabled, timers, accepted,
                    window_open, sessionVars, call >>

EditPassword ==
  \E text \in PasswordTexts :
    /\ window_open
    /\ password_input' = text
    /\ UNCHANGED << email_input, submit_enabled, timers, accepted,
                    window_open, sessionVars, call >>

\* The user clicks the button, when it is enabled, or presses Enter in an
\* input: the three signals connected to handle_login.
Submit ==
  \E signal \in {"submitButton.clicked", "passwordInput.returnPressed",
                 "emailInput.returnPressed"} :
    /\ window_open
    /\ signal = "submitButton.clicked" => submit_enabled
    /\ Len(timers) + Len(accepted) < MaxTimers
    /\ handle_login

LoginFrame ==
  UNCHANGED << students, document, log, last_saved, faults,
               recordVars, queryVars >>

LoginNext ==
  \/ EditEmail /\ LoginFrame
  \/ EditPassword /\ LoginFrame
  \/ Submit /\ LoginFrame
  \/ accept_login /\ LoginFrame

LoginSpec == LoginInit /\ [][LoginNext]_vars

(***************************************************************************)
(* Properties                                                              *)
(***************************************************************************)
Mutations == {"add_student", "update_student", "delete_student"}

HasId(ss, student_id) == \E i \in 1..Len(ss) : ss[i].id = student_id

\* What a fresh store reads from a document (a restart).
Reloaded(doc) == load_data(doc, TRUE, WriteOk).students

\* C1: no two Students of the collection have the same id.
NoDuplicateIds ==
  \A i, j \in 1..Len(students) : i # j => students[i].id # students[j].id

FailedSaveKeepsDocument ==
  [][call'.save = "failed" => document' = document]_vars

\* C4: a mutation whose save_data call fails returns False.
FailedSaveReturnsFalse ==
  (call.op \in Mutations /\ call.save = "failed") => ~call.ret

SignalOf(op) ==
  CASE op = "add_student" -> "student_added"
    [] op = "update_student" -> "student_updated"
    [] op = "delete_student" -> "student_deleted"

\* C5: a mutation that returns True has attempted the save and then emitted
\* its specific signal with the id once, then students_changed once, and
\* nothing else; a mutation that returns False has emitted nothing.
SignalsOncePerSuccess ==
  call.op \in Mutations =>
    /\ call.ret => /\ call.save # "none"
                   /\ log = << Event("save_data", << >>),
                               Event(SignalOf(call.op), call.id),
                               Event("students_changed", << >>) >>
    /\ (~call.ret) => log = << >>

SignalsAfterFailedSave ==
  /\ call.op = "delete_student"
  /\ call.ret
  /\ call.save = "failed"
  /\ Len(log) = 3

\* C6: add_student with an id already present, and update_student or
\* delete_student with an id not present, return False and leave the
\* collection and the document as they were.
RejectedMutationChangesNothing ==
  [][( \/ call'.op = "add_student" /\ HasId(students, call'.id)
       \/ call'.op \in {"update_student", "delete_student"}
            /\ ~HasId(students, call'.id) )
       => /\ ~call'.ret
          /\ students' = students
          /\ document' = document]_vars

DuplicateAddRejected ==
  /\ call.op = "add_student"
  /\ ~call.ret
  /\ HasId(students, call.id)
  /\ document.exists

\* C7: delete_student of a present id removes exactly one entry, keeps the
\* order of the others, and leaves no Student with that id.
DeleteRemovesTheId ==
  [][(call'.op = "delete_student" /\ HasId(students, call'.id))
       => /\ call'.ret
          /\ Len(students') = Len(students) - 1
          /\ \E i \in 1..Len(students) :
               /\ students[i].id = call'.id
               /\ students' = SubSeq(students, 1, i - 1)
                                \o SubSeq(students, i + 1, Len(students))
          /\ ~HasId(students', call'.id)]_vars

\* C8: update_student of a present id puts the new Student at the position
\* of the (first) entry with that id, leaves the length and every other
\* entry as they were, and saves: the save is attempted on the result and
\* the document holds the result when the write succeeds.
UpdateReplacesInPlace ==
  [][(call'.op = "update_student" /\ HasId(students, call'.id))
       => /\ call'.ret
          /\ Len(students') = Len(students)
          /\ \E i \in 1..Len(students) :
               /\ students[i].id = call'.id
               /\ \A k \in 1..(i - 1) : students[k].id # call'.id
               /\ students'[i] = call'.student
               /\ \A j \in 1..Len(students) : j # i => students'[j] = students[j]
          /\ call'.save # "none"
          /\ Head(log') = Event("save_data", << >>)
          /\ (call'.save = "ok" =>
                document' = File(json_dump(MapToDict(students'), Len(students'))))]_vars

UpdatedBehindOthers ==
  /\ call.op = "update_student"
  /\ call.ret
  /\ call.save = "ok"
  /\ Len(students) > 1
  /\ students[Len(students)] = call.student
  /\ students[1] # call.student

\* The records load_data reads from a document that exists, parses and
\* holds only valid records; no "students" key reads as no record.
Loadable(doc) ==
  /\ doc.exists
  /\ json_load(doc.text).ok
  /\ \A k \in 1..Len(json_load(doc.text).data.dicts) :
       IsValid(json_load(doc.text).data.dicts[k])

\* C9 as amended: after load_data the collection is the sample set, or the
\* document exists, parses, holds only valid records, and the collection is
\* those records as validation returns them, which is the empty collection
\* when the document has no "students" key.
LoadYieldsRecordsOrSamples ==
  call.op = "load_data" =>
    \/ students = sample_students
    \/ /\ Loadable(document)
       /\ students = MapFromDict(json_load(document.text).data.dicts)

\* C9 as stated: the collection is the document's records only when the
\* document has a "students" array, and the sample set otherwise.
LoadWithoutArrayYieldsSamples ==
  call.op = "load_data" =>
    \/ students = sample_students
    \/ /\ Loadable(document)
       /\ json_load(document.text).data.present
       /\ students = MapFromDict(json_load(document.text).data.dicts)

LoadedDocumentWithoutArray ==
  /\ call.op = "load_data"
  /\ call.ret
  /\ Loadable(document)
  /\ ~json_load(document.text).data.present
  /\ students = << >>

AllDigits(v) == v # << >> /\ \A i \in 1..Len(v) : IsDigit(v[i])

\* The numeric suffixes of the ids made of "SV" and digits only.
DigitSuffixes(ss) ==
  { DigitsValue(SubSeq(ss[i].id, 3, Len(ss[i].id)), 0) :
      i \in { k \in 1..Len(ss) :
                /\ startswith(ss[k].id, << "S", "V" >>)
                /\ AllDigits(SubSeq(ss[k].id, 3, Len(ss[k].id))) } }

MaxOf(S) == IF S = {} THEN 0 ELSE CHOOSE m \in S : \A n \in S : n <= m

\* C10: generate_next_id returns "SV" and (m + 1) zero-padded to 3 digits,
\* m the largest suffix among the ids made of "SV" and digits only.
NextIdIgnoresOtherIds ==
  call.op = "generate_next_id" =>
    call.result = << "S", "V" >> \o Format03d(MaxOf(DigitSuffixes(students)) + 1)

(***************************************************************************)
(* Student objects                                                         *)
(***************************************************************************)
TextFields == {"name", "hometown", "parish", "diocese"}

Constrained(s) ==
  /\ DOMAIN s = FieldNames
  /\ Len(s.id) >= 3 /\ Len(s.id) <= 10
  /\ s.id[1] = "S" /\ s.id[2] = "V"
  /\ upper(s.id) = s.id
  /\ \A f \in TextFields : Len(s[f]) >= 1 /\ Len(s[f]) <= 100

\* C13: every Student obtained by construction, by from_dict or by a field
\* assignment has an id that starts with "SV", has 3 to 10 characters and
\* equals its own upper-casing, text fields of 1 to 100 characters and no
\* unknown field; a rejected construction or assignment leaves the Student
\* as it was.
StudentsAreConstrained ==
  [][/\ (held' # NoStudent /\ held' # held) => Constrained(held')
     /\ (call'.op \in {"Student", "from_dict", "setattr"} /\ ~call'.ret)
          => held' = held]_vars

StrictDate(v) ==
  /\ Len(v) = 10
  /\ v[3] = "/" /\ v[6] = "/"
  /\ \A i \in {1, 2, 4, 5, 7, 8, 9, 10} : IsDigit(v[i])
  /\ LET day == 10 * DigitVal(v[1]) + DigitVal(v[2])
         month == 10 * DigitVal(v[4]) + DigitVal(v[5])
         year == 1000 * DigitVal(v[7]) + 100 * DigitVal(v[8])
                   + 10 * DigitVal(v[9]) + DigitVal(v[10])
     IN  /\ month >= 1 /\ month <= 12 /\ year >= 1
         /\ day >= 1 /\ day <= DaysInMonth(year, month)

\* C14: construction accepts a birth_date only if it is a real calendar
\* date written as exactly two digits of day, two of month and four of year
\* separated by "/".
AcceptedBirthDatesAreStrict ==
  (call.op \in {"Student", "from_dict"} /\ call.ret)
    => StrictDate(call.student.birth_date)

\* C15: for every accepted field set, from_dict(to_dict(student)) succeeds
\* and equals the original, and a collection holding the Student that is
\* saved and loaded again comes back equal.
RoundTripIsIdentity ==
  call.op = "round_trip"
    => /\ call.ret
       /\ call.student = held
       /\ Reloaded(File(json_dump(<< to_dict(held) >>, 1))) = << held >>

YearsCompleted(v, t) ==
  LET b == strptime(v)
  IN  IF ~b.ok THEN 0
      ELSE t.year - b.year
             - (IF 100 * t.month + t.day < 100 * b.month + b.day THEN 1 ELSE 0)

\* C16: get_age is the year difference, less one when the current
\* (month, day) is earlier than the birth (month, day); birth 15/03/1995
\* gives 28 on 2024-03-14 and 29 from 2024-03-15 to the end of 2024; a
\* stored birth_date that does not parse gives 0.
AgeIsYearsCompleted ==
  call.op = "get_age"
    => /\ call.result = YearsCompleted(call.id, today)
       /\ (call.id = Date2 /\ today = Date(2024, 3, 14)) => call.result = 28
       /\ (call.id = Date2 /\ today.year = 2024
             /\ 100 * today.month + today.day >= 315) => call.result = 29
       /\ (~StrictDate(call.id)) => call.result = 0

AgeOnTheBirthday ==
  /\ call.op = "get_age"
  /\ call.id = Date2
  /\ today = Date(2024, 3, 15)
  /\ call.result = 29

(***************************************************************************)
(* Queries                                                                 *)
(***************************************************************************)
Blank(v) == \A i \in 1..Len(v) : v[i] = " "

InsideOf(v, q) ==
  \E i \in 1..(Len(v) + 1) :
    /\ i + Len(q) - 1 <= Len(v)
    /\ \A k \in 1..Len(q) : LowerChar(v[i + k - 1]) = LowerChar(q[k])

Matches(s, q) ==
  \/ InsideOf(s.id, q) \/ InsideOf(s.name, q) \/ InsideOf(s.hometown, q)
  \/ InsideOf(s.parish, q) \/ InsideOf(s.diocese, q)

RECURSIVE Matching(_, _)
Matching(ss, q) ==
  IF ss = << >> THEN << >>
  ELSE (IF Matches(Head(ss), q) THEN << Head(ss) >> ELSE << >>)
         \o Matching(Tail(ss), q)

\* C11 as stated: search_students returns the whole collection for a blank
\* query, else exactly the Students one of whose five fields holds the
\* query, compared without regard to case, in collection order.
SearchMatchesTheQuery ==
  call.op = "search_students"
    => call.result = IF Blank(call.id) THEN students
                     ELSE Matching(students, call.id)

\* C11: search_students returns the whole collection for a blank query,
\* else exactly the Students one of whose five fields holds the query with
\* its leading and trailing whitespace removed, compared without regard to
\* case, in collection order.
SearchMatchesTheStrippedQuery ==
  call.op = "search_students"
    => call.result = IF Blank(call.id) THEN students
                     ELSE Matching(students, strip(call.id))

SearchWithPaddedQuery ==
  /\ call.op = "search_students"
  /\ ~Blank(call.id)
  /\ strip(call.id) # call.id
  /\ call.result # << >>
  /\ call.result # students

RECURSIVE SumOf(_)
SumOf(d) ==
  IF DOMAIN d = {} THEN 0
  ELSE LET k == CHOOSE x \in DOMAIN d : TRUE
       IN  d[k] + SumOf([x \in DOMAIN d \ {k} |-> d[x]])

ValuesOf(ss, field) == {ss[i][field] : i \in 1..Len(ss)}

Frequencies(ss, field, d) ==
  /\ DOMAIN d = ValuesOf(ss, field)
  /\ \A v \in DOMAIN d : d[v] = Cardinality({i \in 1..Len(ss) : ss[i][field] = v})
  /\ SumOf(d) = Len(ss)

\* C12: get_statistics reports the collection length as total_students,
\* frequency maps of diocese, parish and hometown whose counts sum to it,
\* and as unique counts the numbers of distinct values of those fields.
StatisticsCountTheCollection ==
  call.op = "get_statistics"
    => /\ call.result.total_students = Len(students)
       /\ Frequencies(students, "diocese", call.result.diocese_distribution)
       /\ Frequencies(students, "parish", call.result.parish_distribution)
       /\ Frequencies(students, "hometown", call.result.hometown_distribution)
       /\ call.result.unique_dioceses = Cardinality(ValuesOf(students, "diocese"))
       /\ call.result.unique_parishes = Cardinality(ValuesOf(students, "parish"))
       /\ call.result.unique_hometowns = Cardinality(ValuesOf(students, "hometown"))

StatisticsWithSharedValues ==
  /\ call.op = "get_statistics"
  /\ call.result.total_students = 10
  /\ call.result.unique_dioceses < 10
  /\ \E v \in DOMAIN call.result.diocese_distribution :
       call.result.diocese_distribution[v] = 2

QueryOps ==
  {"get_all_students", "get_student_by_id", "search_students", "filter_by",
   "get_statistics", "generate_next_id"}

ListOps == {"clear", "append"}

StoreOps == {"add_student", "delete_student"}

\* C17 as stated: the query operations and export_to_csv leave collection
\* and document unchanged and emit no event; a change of the list
\* get_all_students returned leaves the collection unchanged and a later
\* mutation of the store leaves the list unchanged.
QueriesChangeNothing ==
  [][/\ call'.op \in QueryOps \cup {"export_to_csv"}
          => /\ students' = students
             /\ document' = document
             /\ log' = << >>
     /\ call'.op \in ListOps => students' = students /\ document' = document
     /\ (call'.op \in StoreOps /\ snapshot # NoList)
          => snapshot'.items = snapshot.items]_vars

\* C17: as above, for export_to_csv called with a path other than the
\* document's.
QueriesOutsideDocumentChangeNothing ==
  [][/\ (\/ call'.op \in QueryOps
         \/ call'.op = "export_to_csv" /\ call'.id # DataFilePath)
          => /\ students' = students
             /\ document' = document
             /\ log' = << >>
     /\ call'.op \in ListOps => students' = students /\ document' = document
     /\ (call'.op \in StoreOps /\ snapshot # NoList)
          => snapshot'.items = snapshot.items]_vars

StoreChangedBehindSnapshot ==
  /\ call.op \in StoreOps
  /\ call.ret
  /\ snapshot # NoList
  /\ snapshot.items # students
  /\ csv_file.exists

(***************************************************************************)
(* Session and login                                                       *)
(***************************************************************************)
CheckOps == {"check_existing_session", "is_session_valid", "get_current_user"}

Reports(c) ==
  \/ c.op = "check_existing_session" /\ c.result # NoSession
  \/ c.op = "is_session_valid" /\ c.result
  \/ c.op = "get_current_user" /\ c.result # NoSession

AcceptLoginRunsOnce == Len(accepted) <= 1

\* C20: the email accept_login stores in the session file and hands to the
\* main window is the one authenticate_user accepted in the handle_login
\* call that started the timer.
AcceptedEmailWasAuthenticated ==
  /\ \A i \in 1..Len(accepted) : accepted[i].user_email = accepted[i].authenticated
  /\ (accepted # << >>)
       => session_file.user_email = accepted[Len(accepted)].authenticated

(***************************************************************************)
(* The next id                                                             *)
(***************************************************************************)
\* C21: the id generate_next_id returns starts with "SV", has at most 10
\* characters and is the id of no Student of the collection, and the
\* Student built with it is constructed and added.
NextIdIsUsable ==
  /\ call.op = "generate_next_id"
       => /\ Len(call.result) >= 3 /\ Len(call.result) <= 10
          /\ call.result[1] = "S" /\ call.result[2] = "V"
          /\ ~HasId(students, call.result)
  /\ call.op = "Student" => call.ret

====
